---- MODULE Spec2Model ----
(***************************************************************************)
(* A model of src/bot.py (class SaaraaBot):                                *)
(*   - the per-user conversation memory (get_or_reset_conversation,        *)
(*     add_to_conversation), specification Spec;                           *)
(*   - the code-block executor and the run handler (execute_code_block,    *)
(*     handle_run_command), specification SpecRun;                         *)
(*   - the splitting of a long result text into messages                   *)
(*     (handle_run_command, send_with_markdown), specification SpecChunk;  *)
(*   - message handlers of one user interleaving at their awaits           *)
(*     (handle_message, process_with_gemini), specification SpecConc;      *)
(*   - a run request and the update of another user behind it in the       *)
(*     application's update queue (run), specification SpecLoop;           *)
(*   - the checks execute_code_block makes before it creates a process,    *)
(*     as a function of the block, specification SpecPolicy;               *)
(*   - the extraction of the code blocks from a text (extract_code_blocks), *)
(*     specification SpecExtract.                                          *)
(***************************************************************************)
EXTENDS Integers, Sequences, FiniteSets

VARIABLES
    \* ---- conversation memory
    conversations,  \* self.conversations: user_id -> [messages, last_activity]
    now,            \* the value datetime.now() returns, in minutes
    sent,           \* per user: how many times add_to_conversation was called
    lastCall,       \* per user: the most recent call on the session and its result
    appended,       \* per user: the turns appended since the session was absent or emptied
    staleBefore,    \* per user: the turns numbered up to this precede an idle gap
    \* ---- run handler and executor
    code_blocks,    \* handle_run_command: the extracted blocks, [language, code]
    denied,         \* per block: whether the policy, as its description words it, denies it
    answered,       \* what prompt() gave: "none" before it, "yes", "other" or "dismissed"
    hpc,            \* handle_run_command: where the handler is
    i,              \* handle_run_command: the loop index of enumerate(code_blocks)
    results,        \* handle_run_command: the results list
    epc,            \* execute_code_block: "idle", "communicate" or "returned"
    eret,           \* execute_code_block: the value the current call returned
    children,       \* per block: the child process created for it
    started,        \* the blocks execute_code_block was called for, in call order
    \* ---- sending the result text
    final_result,   \* handle_run_command: the joined results, a sequence of character codes
    parts,          \* handle_run_command: the texts to send, in order
    spc,            \* where the sending is
    j,              \* the part being sent
    fallback,       \* send_with_markdown: the Markdown attempt of this part failed
    delivered,      \* the messages the transport accepted, in order
    \* ---- message handlers in flight
    rpc,            \* per handler: the call it is in and the statement it is at
    running,        \* the handler that runs on the event loop, 0 when all are suspended
    tmp,            \* per handler: messages[-10:] evaluated and not yet stored
    failures,       \* how many completion() calls of text messages have raised
    ref,            \* the session a one-call-at-a-time execution of the finished calls gives
    observedPartial, \* a handler ran while another one was inside a call on the session
    \* ---- the update queue
    other,          \* the update of another user: "none", "pending", "handling" or "done"
    \* ---- the policy as a function
    code_block,     \* execute_code_block: its argument, [language, code]
    decisions,      \* what the checks before the process creation gave for it, call by call
    \* ---- the extraction
    message_text,   \* extract_code_blocks: its argument, a sequence of characters
    xpc,            \* extract_code_blocks: "none", "called" or "returned"
    extracted       \* extract_code_blocks: the list it returned

sessionVars == <<conversations, now, sent, lastCall, appended, staleBefore>>

runVars == <<code_blocks, denied, answered, hpc, i, results, epc, eret, children, started>>

sendVars == <<final_result, parts, spc, j, fallback, delivered>>

concVars == <<rpc, running, tmp, failures, ref, observedPartial>>

loopVars == <<other>>

policyVars == <<code_block, decisions>>

extractVars == <<message_text, xpc, extracted>>

vars == <<sessionVars, runVars, sendVars, concVars, loopVars, policyVars, extractVars>>

\* what the actions of one part of the model leave alone
notSession == <<runVars, sendVars, concVars, loopVars, policyVars, extractVars>>
notRun == <<sessionVars, sendVars, concVars, loopVars, policyVars, extractVars>>
notSend == <<sessionVars, runVars, concVars, loopVars, policyVars, extractVars>>
notConc == <<runVars, sendVars, loopVars, policyVars, extractVars>>
notLoop == <<sessionVars, runVars, sendVars, concVars, policyVars, extractVars>>
notPolicy == <<sessionVars, runVars, sendVars, concVars, loopVars, extractVars>>
notExtract == <<sessionVars, runVars, sendVars, concVars, loopVars, policyVars>>

----------------------------------------------------------------------------
(* Bounds of the model                                                     *)

MaxTime == 7        \* the clock runs from 0 to MaxTime minutes
MaxAppends == 11    \* add_to_conversation is called at most this often, over all users
MaxBlocks == 2      \* a run request holds at most this many code blocks
MaxParts == 2       \* a result text is at most one character longer than this many full messages
MaxInFlight == 2    \* at most this many message handlers are in flight at once
MaxFailures == 1    \* completion() raises for at most this many text messages
MaxCalls == 2       \* the checks are made at most this often for one block
MaxTokens == 6      \* a text is made of at most this many pieces

(* Constants of the program                                                *)

memory_timeout == 5 \* timedelta(minutes=5)
MaxMessages == 10   \* "Keep only last 10 messages"
MessageLimit == 4000 \* if len(final_result) > 4000: ... final_result[i:i+4000]

Users == {1, 2}

----------------------------------------------------------------------------
(* Conversation memory                                                     *)

\* The k-th turn of a user: the callers append a "user" turn and then the
\* "assistant" turn that answers it; the content is the k-th text of that user.
RoleOf(k) == IF k % 2 = 1 THEN "user" ELSE "assistant"
ContentOf(user_id, k) == <<user_id, k>>

RECURSIVE SumOver(_, _)
SumOver(f, S) ==
    IF S = {} THEN 0
    ELSE LET x == CHOOSE y \in S : TRUE IN f[x] + SumOver(f, S \ {x})

\* the number of add_to_conversation calls made so far, over all users
TotalSent == SumOver(sent, Users)

Min(a, b) == IF a < b THEN a ELSE b

\* s[-n:] of Python for 0 < n
LastN(s, n) == SubSeq(s, Len(s) - Min(n, Len(s)) + 1, Len(s))

\* {"messages": [], "last_activity": t}
NewSession(t) == [messages |-> <<>>, last_activity |-> t]

\* (mutant) the comparison made against one minute more than the timeout
ExpiredLate(last_activity, t) == t - last_activity > memory_timeout + 1

\* now - last_activity > self.memory_timeout
Expired(last_activity, t) == t - last_activity > memory_timeout

\* (mutant) the history is never cut
KeepAll(messages) == messages

\* (mutant) the history is cut at the wrong end: messages[:10]
KeepFirst(messages) ==
    IF Len(messages) > MaxMessages THEN SubSeq(messages, 1, MaxMessages) ELSE messages

\* if len(messages) > 10: messages = messages[-10:]
KeepLast(messages) ==
    IF Len(messages) > MaxMessages THEN LastN(messages, MaxMessages) ELSE messages

\* self.conversations[user_id] = session
Store(user_id, session) ==
    [u \in DOMAIN conversations \cup {user_id} |->
        IF u = user_id THEN session ELSE conversations[u]]

\* the session get_or_reset_conversation leaves behind
SessionAfterGet(user_id, t) ==
    IF user_id \notin DOMAIN conversations
        THEN NewSession(t)
    ELSE IF Expired(conversations[user_id].last_activity, t)
        THEN NewSession(t)
    ELSE [conversations[user_id] EXCEPT !.last_activity = t]

\* the list get_or_reset_conversation returns
ReturnOfGet(user_id, t) ==
    IF user_id \notin DOMAIN conversations
        THEN <<>>
    ELSE IF Expired(conversations[user_id].last_activity, t)
        THEN <<>>
    ELSE conversations[user_id].messages

\* the session add_to_conversation leaves behind
SessionAfterAdd(user_id, role, content, t) ==
    LET base == IF user_id \notin DOMAIN conversations
                    THEN NewSession(t)
                    ELSE conversations[user_id]
        grown == Append(base.messages, [role |-> role, content |-> content])
    IN  [messages |-> KeepLast(grown), last_activity |-> t]

\* An idle gap ends with this call: the session was used before and more than
\* the timeout has passed since its last use.
GapBefore(user_id) ==
    /\ lastCall[user_id].op # "none"
    /\ now - lastCall[user_id].at > memory_timeout

NoteGap(user_id) ==
    staleBefore' = [staleBefore EXCEPT ![user_id] =
                        IF GapBefore(user_id) THEN sent[user_id] ELSE @]

get_or_reset_conversation(user_id) ==
    LET idle == /\ user_id \in DOMAIN conversations
                /\ now - conversations[user_id].last_activity > memory_timeout
        emptied == user_id \notin DOMAIN conversations \/ idle
    IN  /\ conversations' = Store(user_id, SessionAfterGet(user_id, now))
        /\ lastCall' = [lastCall EXCEPT ![user_id] =
                [op |-> "get", idle |-> idle, at |-> now,
                 ret |-> ReturnOfGet(user_id, now)]]
        /\ appended' = [appended EXCEPT ![user_id] = IF emptied THEN <<>> ELSE @]
        /\ NoteGap(user_id)
        /\ UNCHANGED <<now, sent>>
        /\ UNCHANGED notSession

add_to_conversation(user_id, role, content) ==
    /\ TotalSent < MaxAppends
    /\ conversations' = Store(user_id, SessionAfterAdd(user_id, role, content, now))
    /\ sent' = [sent EXCEPT ![user_id] = @ + 1]
    /\ lastCall' = [lastCall EXCEPT ![user_id] =
            [op |-> "add",
             idle |-> (lastCall[user_id].op = "get" /\ lastCall[user_id].idle),
             at |-> now, ret |-> <<>>]]
    /\ appended' = [appended EXCEPT ![user_id] =
            Append(@, [role |-> role, content |-> content])]
    /\ NoteGap(user_id)
    /\ UNCHANGED now
    /\ UNCHANGED notSession

\* time passes between two calls
Tick ==
    /\ now < MaxTime
    /\ now' = now + 1
    /\ UNCHANGED <<conversations, sent, lastCall, appended, staleBefore>>
    /\ UNCHANGED notSession

\* self.conversations = {} and nothing called yet
SessionInit ==
    /\ conversations = [u \in {} |-> NewSession(0)]
    /\ now = 0
    /\ sent = [u \in Users |-> 0]
    /\ lastCall = [u \in Users |-> [op |-> "none", idle |-> FALSE, at |-> 0, ret |-> <<>>]]
    /\ appended = [u \in Users |-> <<>>]
    /\ staleBefore = [u \in Users |-> 0]

\* no run request is being handled
RunIdle ==
    /\ code_blocks = <<>>
    /\ denied = <<>>
    /\ answered = "none"
    /\ hpc = "none"
    /\ i = 0
    /\ results = <<>>
    /\ epc = "idle"
    /\ eret = [status |-> "None", tag |-> "", body |-> "", output |-> <<>>]
    /\ children = <<>>
    /\ started = <<>>

\* no result text is being sent
SendIdle ==
    /\ final_result = <<>>
    /\ parts = <<>>
    /\ spc = "none"
    /\ j = 0
    /\ fallback = FALSE
    /\ delivered = <<>>

\* no message handler is in flight
ConcIdle ==
    /\ rpc = <<>>
    /\ running = 0
    /\ tmp = <<>>
    /\ failures = 0
    /\ ref = [present |-> FALSE, messages |-> <<>>, last_activity |-> 0]
    /\ observedPartial = FALSE

\* no update of another user is waiting
LoopIdle == other = "none"

\* no block is being judged on its own
PolicyIdle ==
    /\ code_block = [language |-> "", code |-> <<>>]
    /\ decisions = <<>>

\* no text is being searched on its own
ExtractIdle ==
    /\ message_text = <<>>
    /\ xpc = "none"
    /\ extracted = <<>>

FunctionsIdle == PolicyIdle /\ ExtractIdle

Init == SessionInit /\ RunIdle /\ SendIdle /\ ConcIdle /\ LoopIdle /\ FunctionsIdle

Next ==
    \/ \E u \in Users : get_or_reset_conversation(u)
    \/ \E u \in Users : add_to_conversation(u, RoleOf(sent[u] + 1), ContentOf(u, sent[u] + 1))
    \/ Tick

Spec == Init /\ [][Next]_vars

----------------------------------------------------------------------------
(* Claims about the conversation memory (checked under Spec)               *)

Stored(u) == IF u \in DOMAIN conversations THEN conversations[u].messages ELSE <<>>

\* C1: in every reachable state, whatever calls of get_or_reset_conversation
\* and add_to_conversation were made for whatever users, every user's stored
\* turn list has at most 10 entries.
C1_AtMostTenTurns ==
    \A u \in DOMAIN conversations : Len(conversations[u].messages) <= 10

\* a user whose 11th turn was appended and whose history is full
C1_Witness ==
    \E u \in DOMAIN conversations :
        /\ Len(appended[u]) >= 11
        /\ Len(conversations[u].messages) = 10

\* C2: after N calls of add_to_conversation that started from an absent or
\* empty session, with no reset in between, the stored turns number
\* min(N, 10) and are the last min(N, 10) appended turns, in append order.
C2_LastTurnsKept ==
    \A u \in Users :
        LET N == Len(appended[u])
            kept == Stored(u)
        IN  /\ Len(kept) = Min(N, 10)
            /\ \A k \in 1..Len(kept) : kept[k] = appended[u][N - Len(kept) + k]

\* 11 appends in a row: the first turn is gone, the 11th is the last
C2_Witness ==
    \E u \in Users :
        /\ Len(appended[u]) = 11
        /\ Stored(u)[1] = appended[u][2]
        /\ Stored(u)[10] = appended[u][11]

\* C3: a get_or_reset_conversation called when more than 5 minutes have
\* passed since the session's last_activity returns the empty sequence and
\* leaves an empty history whose last_activity is the time of the call; the
\* add_to_conversation that follows leaves a history of exactly one turn.
C3_IdleReset ==
    \A u \in Users :
        /\ (lastCall[u].op = "get" /\ lastCall[u].idle) =>
                /\ lastCall[u].ret = <<>>
                /\ u \in DOMAIN conversations
                /\ conversations[u] = [messages |-> <<>>, last_activity |-> lastCall[u].at]
        /\ (lastCall[u].op = "add" /\ lastCall[u].idle) =>
                Len(conversations[u].messages) = 1

\* a session that held turns, was read after the gap, and was appended to
C3_Witness ==
    \E u \in Users :
        /\ lastCall[u].op = "add"
        /\ lastCall[u].idle
        /\ sent[u] >= 2
        /\ Len(conversations[u].messages) = 1

\* C4: a turn appended before an idle gap of more than 5 minutes is never in
\* the sequence a later get_or_reset_conversation returns, also when appends
\* were made without a read before them.
C4_NoStaleTurnReturned ==
    \A u \in Users :
        lastCall[u].op = "get" =>
            \A k \in 1..Len(lastCall[u].ret) :
                lastCall[u].ret[k].content[2] > staleBefore[u]

----------------------------------------------------------------------------
(* Texts are sequences of one-character strings.                           *)

UpperCase == <<"A", "B", "C", "D", "E", "F", "G", "H", "I", "J", "K", "L", "M",
               "N", "O", "P", "Q", "R", "S", "T", "U", "V", "W", "X", "Y", "Z">>
LowerCase == <<"a", "b", "c", "d", "e", "f", "g", "h", "i", "j", "k", "l", "m",
               "n", "o", "p", "q", "r", "s", "t", "u", "v", "w", "x", "y", "z">>
LowerOf == [c \in {UpperCase[k] : k \in 1..26} |->
                LowerCase[CHOOSE k \in 1..26 : UpperCase[k] = c]]

\* str.lower() on one character, and the case folding of re.IGNORECASE
LowerChar(c) == IF c \in DOMAIN LowerOf THEN LowerOf[c] ELSE c

\* str.lower()
Lower(text) == [k \in 1..Len(text) |-> LowerChar(text[k])]

\* the characters \s matches
IsSpace(c) == c \in {" ", "\t", "\n", "\r"}

----------------------------------------------------------------------------
(* The policy of execute_code_block                                        *)

\* if language not in ['bash', 'sh', 'python', 'py', 'javascript', 'js', 'node']
SupportedLanguages == {"bash", "sh", "python", "py", "javascript", "js", "node"}

IsSupported(language) == language \in SupportedLanguages

\* Elements of a pattern: a literal character, \s+, \s*, .* and $
Lit(text) == [k \in 1..Len(text) |-> [kind |-> "lit", ch |-> text[k]]]
SpacePlus == <<[kind |-> "space+", ch |-> ""]>>
SpaceStar == <<[kind |-> "space*", ch |-> ""]>>
AnyStar == <<[kind |-> "any*", ch |-> ""]>>
AtEnd == <<[kind |-> "end", ch |-> ""]>>

\* the list dangerous_patterns, in its order
dangerous_patterns == <<
    Lit(<<"r", "m">>) \o SpacePlus \o Lit(<<"-", "r", "f">>),
    Lit(<<"s", "u", "d", "o">>),
    Lit(<<"c", "h", "m", "o", "d">>) \o SpacePlus \o Lit(<<"7", "7", "7">>),
    Lit(<<">", "/", "d", "e", "v", "/", "n", "u", "l", "l">>),
    Lit(<<"&">>) \o SpaceStar \o AtEnd,
    Lit(<<"s", "h", "u", "t", "d", "o", "w", "n">>),
    Lit(<<"r", "e", "b", "o", "o", "t">>),
    Lit(<<"f", "o", "r", "m", "a", "t">>),
    Lit(<<"m", "k", "f", "s">>),
    Lit(<<"d", "d">>) \o SpacePlus \o Lit(<<"i", "f", "=">>),
    Lit(<<"c", "u", "r", "l">>) \o AnyStar \o Lit(<<"|">>) \o AnyStar
        \o Lit(<<"b", "a", "s", "h">>),
    Lit(<<"w", "g", "e", "t">>) \o AnyStar \o Lit(<<"|">>) \o AnyStar
        \o Lit(<<"b", "a", "s", "h">>) >>

\* the text of each pattern, as the Blocked result reports it
PatternText == <<"rm\\s+-rf", "sudo", "chmod\\s+777", ">/dev/null", "&\\s*$",
                 "shutdown", "reboot", "format", "mkfs", "dd\\s+if=",
                 "curl.*\\|.*bash", "wget.*\\|.*bash">>

\* the pattern, from its element pi on, matches the text at position si
RECURSIVE MatchHere(_, _, _, _)
MatchHere(pattern, pi, text, si) ==
    IF pi > Len(pattern) THEN TRUE
    ELSE LET e == pattern[pi]
             more == si <= Len(text)
         IN  CASE e.kind = "lit" ->
                    /\ more
                    /\ LowerChar(text[si]) = LowerChar(e.ch)
                    /\ MatchHere(pattern, pi + 1, text, si + 1)
               [] e.kind = "space+" ->
                    /\ more
                    /\ IsSpace(text[si])
                    /\ \/ MatchHere(pattern, pi, text, si + 1)
                       \/ MatchHere(pattern, pi + 1, text, si + 1)
               [] e.kind = "space*" ->
                    \/ (more /\ IsSpace(text[si]) /\ MatchHere(pattern, pi, text, si + 1))
                    \/ MatchHere(pattern, pi + 1, text, si)
               [] e.kind = "any*" ->
                    \/ (more /\ text[si] # "\n" /\ MatchHere(pattern, pi, text, si + 1))
                    \/ MatchHere(pattern, pi + 1, text, si)
               [] e.kind = "end" ->
                    /\ \/ si = Len(text) + 1
                       \/ (si = Len(text) /\ text[si] = "\n")
                    /\ MatchHere(pattern, pi + 1, text, Len(text) + 1)

\* re.search(pattern, code, re.IGNORECASE) finds a match
Search(pattern, code) ==
    \E start \in 1..(Len(code) + 1) : MatchHere(pattern, 1, code, start)

\* (mutant) the loop over the patterns misses the first one
FirstDangerousFromSecond(code) ==
    IF \E p \in 2..Len(dangerous_patterns) : Search(dangerous_patterns[p], code)
        THEN CHOOSE p \in 2..Len(dangerous_patterns) :
                /\ Search(dangerous_patterns[p], code)
                /\ \A q \in 2..(p - 1) : ~Search(dangerous_patterns[q], code)
        ELSE 0

\* for pattern in dangerous_patterns: if re.search(...): return ...
\* the index of the first pattern that matches, 0 when none does
FirstDangerous(code) ==
    IF \E p \in 1..Len(dangerous_patterns) : Search(dangerous_patterns[p], code)
        THEN CHOOSE p \in 1..Len(dangerous_patterns) :
                /\ Search(dangerous_patterns[p], code)
                /\ \A q \in 1..(p - 1) : ~Search(dangerous_patterns[q], code)
        ELSE 0

----------------------------------------------------------------------------
(* execute_code_block                                                      *)

\* the branch of the if / elif chain that runs the block; "none" when the
\* language is in none of the three lists
Family(language) ==
    IF language \in {"bash", "sh"} THEN "shell"
    ELSE IF language \in {"python", "py"} THEN "Python"
    ELSE IF language \in {"javascript", "js", "node"} THEN "Node.js"
    ELSE "none"

\* bytes.decode('utf-8', errors='replace') on ASCII bytes and lone invalid
\* bytes: an invalid byte becomes U+FFFD
Decode(bytes) == [k \in 1..Len(bytes) |-> IF bytes[k] < 128 THEN bytes[k] ELSE 65533]

\* The strings execute_code_block returns, by their template and their parts.
NoneResult == [status |-> "None", tag |-> "", body |-> "", output |-> <<>>]
Allowed == [status |-> "Allowed", tag |-> "", body |-> "", output |-> <<>>]
UnsupportedResult(language) ==
    [status |-> "Blocked", tag |-> "language", body |-> language, output |-> <<>>]
DangerousResult(p) ==
    [status |-> "Blocked", tag |-> "pattern", body |-> PatternText[p], output |-> <<>>]
TimedOutResult ==
    [status |-> "TimedOut", tag |-> "", body |-> "30 second limit", output |-> <<>>]
ErrorResult(message) ==
    [status |-> "ExecutionError", tag |-> "", body |-> message, output |-> <<>>]
Raised(exception) ==
    [status |-> "Raised", tag |-> exception.type, body |-> exception.message, output |-> <<>>]

\* (mutant) the failure message is built from stdout
RenderedFromStdout(family, returncode, stdout, stderr) ==
    IF returncode = 0
        THEN IF Decode(stdout) # <<>>
                THEN [status |-> "Success", tag |-> family, body |-> "fenced",
                      output |-> Decode(stdout)]
                ELSE [status |-> "Success", tag |-> family, body |-> "(no output)",
                      output |-> <<>>]
        ELSE [status |-> "Failure", tag |-> family, body |-> "fenced",
              output |-> Decode(stdout)]

\* output = stdout.decode(...); error = stderr.decode(...)
\* if process.returncode == 0: return success (output or "no output") else failure
Rendered(family, returncode, stdout, stderr) ==
    IF returncode = 0
        THEN IF Decode(stdout) # <<>>
                THEN [status |-> "Success", tag |-> family, body |-> "fenced",
                      output |-> Decode(stdout)]
                ELSE [status |-> "Success", tag |-> family, body |-> "(no output)",
                      output |-> <<>>]
        ELSE [status |-> "Failure", tag |-> family, body |-> "fenced",
              output |-> Decode(stderr)]

\* (mutant) the patterns are tried before the language is looked at
PolicyPatternsFirst(block) ==
    IF FirstDangerous(block.code) # 0
        THEN DangerousResult(FirstDangerous(block.code))
    ELSE IF ~IsSupported(block.language)
        THEN UnsupportedResult(block.language)
    ELSE Allowed

\* the checks made before any process is created
PolicyResult(block) ==
    IF ~IsSupported(block.language)
        THEN UnsupportedResult(block.language)
    ELSE IF FirstDangerous(block.code) # 0
        THEN DangerousResult(FirstDangerous(block.code))
    ELSE Allowed

\* (mutant) the clause "except Exception" is missing
HandleTimeoutOnly(exception) ==
    IF exception.type = "TimeoutError" THEN TimedOutResult ELSE Raised(exception)

\* except asyncio.TimeoutError: ... / except Exception as e: ...
Handle(exception) ==
    IF exception.type = "TimeoutError" THEN TimedOutResult
    ELSE IF exception.type \in {"OSError", "KeyError", "ValueError"}
        THEN ErrorResult(exception.message)
    ELSE Raised(exception)

NoChild == [state |-> "none", returncode |-> 0, stdout |-> <<>>, stderr |-> <<>>,
            late |-> FALSE, error |-> ""]

\* what a child process may do: exit status, bytes on stdout, bytes on stderr
Exits == { [returncode |-> 0, stdout |-> <<50, 10>>, stderr |-> <<>>],
           [returncode |-> 0, stdout |-> <<>>, stderr |-> <<119>>],
           [returncode |-> 1, stdout |-> <<50>>, stderr |-> <<255, 10>>] }

\* what creating the process may do
Spawns == { [ok |-> TRUE, type |-> "", message |-> ""],
            [ok |-> FALSE, type |-> "OSError", message |-> "No such file or directory"] }

\* result = await self.execute_code_block(code_block), up to the first await
\* that suspends: the policy, the dispatch and the creation of the process
ExecCall(spawn) ==
    /\ hpc = "loop"
    /\ epc = "idle"
    /\ i < Len(code_blocks)
    /\ LET block == code_blocks[i + 1]
           policy == PolicyResult(block)
       IN  /\ started' = Append(started, i + 1)
           /\ IF policy.status = "Blocked"
                THEN /\ eret' = policy
                     /\ epc' = "returned"
                     /\ UNCHANGED children
              ELSE IF Family(block.language) = "none"
                THEN /\ eret' = NoneResult
                     /\ epc' = "returned"
                     /\ UNCHANGED children
              ELSE IF spawn.ok
                THEN /\ children' = [children EXCEPT ![i + 1] =
                                        [NoChild EXCEPT !.state = "running"]]
                     /\ epc' = "communicate"
                     /\ UNCHANGED eret
              ELSE   /\ children' = [children EXCEPT ![i + 1] =
                                        [NoChild EXCEPT !.state = "spawn_failed",
                                                        !.error = spawn.message]]
                     /\ eret' = Handle(spawn)
                     /\ epc' = "returned"
    /\ UNCHANGED <<code_blocks, denied, answered, hpc, i, results>>
    /\ UNCHANGED notRun

\* A child process ends by itself. stdout and stderr of the record are the
\* bytes communicate() collected: once the wait was given up nothing collects
\* them any more.
ChildExit(k, exit) ==
    /\ children[k].state = "running"
    /\ children' = [children EXCEPT ![k] =
            IF epc = "communicate" /\ k = i + 1
                THEN [state |-> "exited", returncode |-> exit.returncode,
                      stdout |-> exit.stdout, stderr |-> exit.stderr,
                      late |-> FALSE, error |-> ""]
                ELSE [state |-> "exited", returncode |-> exit.returncode,
                      stdout |-> <<>>, stderr |-> <<>>,
                      late |-> TRUE, error |-> ""]]
    /\ UNCHANGED <<code_blocks, denied, answered, hpc, i, results, epc, eret, started>>
    /\ UNCHANGED notRun

\* process.communicate() completes within the timeout
CommunicateReturns ==
    /\ epc = "communicate"
    /\ children[i + 1].state = "exited"
    /\ eret' = Rendered(Family(code_blocks[i + 1].language), children[i + 1].returncode,
                        children[i + 1].stdout, children[i + 1].stderr)
    /\ epc' = "returned"
    /\ UNCHANGED <<code_blocks, denied, answered, hpc, i, results, children, started>>
    /\ UNCHANGED notRun

\* asyncio.wait_for gives up after 30 seconds: communicate() is cancelled and
\* TimeoutError is raised; nothing is done to the process
Timeout ==
    /\ epc = "communicate"
    /\ children[i + 1].state = "running"
    /\ eret' = Handle([type |-> "TimeoutError", message |-> ""])
    /\ epc' = "returned"
    /\ UNCHANGED <<code_blocks, denied, answered, hpc, i, results, children, started>>
    /\ UNCHANGED notRun

----------------------------------------------------------------------------
(* handle_run_command, from the extracted blocks on                        *)

\* (mutant) the label is the loop index itself
LabelFromZero(index) == index

\* f"*Block {i+1} ..."
Label(index) == index + 1

\* what prompt() returns: the text typed, or None when the box is dismissed
Answers == { [given |-> FALSE, text |-> <<>>],
             [given |-> TRUE, text |-> <<"y">>],
             [given |-> TRUE, text |-> <<"Y">>],
             [given |-> TRUE, text |-> <<"n">>],
             [given |-> TRUE, text |-> <<"y", "e", "s">>],
             [given |-> TRUE, text |-> <<>>] }

\* if not code_blocks: reply "No code blocks found" and return
CheckBlocks ==
    /\ hpc = "extracted"
    /\ hpc' = IF code_blocks = <<>> THEN "no_blocks" ELSE "prompt"
    /\ UNCHANGED <<code_blocks, denied, answered, i, results, epc, eret, children, started>>
    /\ UNCHANGED notRun

\* (mutant) only the answer n cancels
DeclinedOnlyOnNo(confirmation) == Lower(confirmation.text) = <<"n">>

\* confirmation.lower() != "y"
Declined(confirmation) == Lower(confirmation.text) # <<"y">>

\* the answer as the confirmation rule words it: y in either case, another
\* text, or no answer
KindOfAnswer(confirmation) ==
    IF ~confirmation.given THEN "dismissed"
    ELSE IF confirmation.text \in {<<"y">>, <<"Y">>} THEN "yes"
    ELSE "other"

\* confirmation = prompt(...); if confirmation.lower() != "y": cancelled.
\* None has no lower(): the AttributeError reaches the handler's except clause.
Prompt(confirmation) ==
    /\ hpc = "prompt"
    /\ hpc' = IF ~confirmation.given THEN "error"
              ELSE IF Declined(confirmation) THEN "cancelled"
              ELSE "loop"
    /\ answered' = KindOfAnswer(confirmation)
    /\ UNCHANGED <<code_blocks, denied, i, results, epc, eret, children, started>>
    /\ UNCHANGED notRun

\* results.append(f"*Block {i+1} ({code_block['language']}):*\n{result}")
\* An exception execute_code_block let through ends the handler instead.
Resume ==
    /\ hpc = "loop"
    /\ epc = "returned"
    /\ IF eret.status = "Raised"
         THEN /\ hpc' = "error"
              /\ UNCHANGED <<i, results>>
         ELSE /\ results' = Append(results,
                    [label |-> Label(i), language |-> code_blocks[i + 1].language,
                     result |-> eret])
              /\ i' = i + 1
              /\ UNCHANGED hpc
    /\ epc' = "idle"
    /\ eret' = NoneResult
    /\ UNCHANGED <<code_blocks, denied, answered, children, started>>
    /\ UNCHANGED notRun

\* the loop is over: final_result is built and sent
Finish ==
    /\ hpc = "loop"
    /\ epc = "idle"
    /\ i = Len(code_blocks)
    /\ hpc' = "done"
    /\ UNCHANGED <<code_blocks, denied, answered, i, results, epc, eret, children, started>>
    /\ UNCHANGED notRun

\* the blocks a request may hold: every supported language with a harmless
\* body, an unsupported language, and bodies the deny-list matches
Languages == SupportedLanguages \cup {"ruby"}
Echo == <<"e", "c", "h", "o", " ", "h", "i">>
RmRf == <<"r", "m", " ", "-", "r", "f", " ", "/">>
Blocks == [language : Languages, code : {Echo}]
            \cup [language : {"bash", "python", "ruby"}, code : {RmRf}]

RECURSIVE SeqsUpTo(_, _)
SeqsUpTo(S, n) ==
    IF n = 0 THEN {<<>>}
    ELSE LET shorter == SeqsUpTo(S, n - 1)
         IN  shorter \cup {Append(q, x) : q \in shorter, x \in S}

\* The policy as its description words it: the language is outside the seven
\* allowed ones, or some pattern of the deny-list matches the body.
DeniedByPolicy(block) ==
    \/ block.language \notin {"bash", "sh", "python", "py", "javascript", "js", "node"}
    \/ \E p \in 1..Len(dangerous_patterns) : Search(dangerous_patterns[p], block.code)

\* a run request whose blocks have just been extracted
RunStart ==
    /\ SessionInit
    /\ SendIdle
    /\ ConcIdle
    /\ FunctionsIdle
    /\ code_blocks \in SeqsUpTo(Blocks, MaxBlocks)
    /\ denied = [k \in 1..Len(code_blocks) |-> DeniedByPolicy(code_blocks[k])]
    /\ answered = "none"
    /\ hpc = "extracted"
    /\ i = 0
    /\ results = <<>>
    /\ epc = "idle"
    /\ eret = NoneResult
    /\ children = [k \in 1..Len(code_blocks) |-> NoChild]
    /\ started = <<>>

InitRun == RunStart /\ LoopIdle

NextRun ==
    \/ CheckBlocks
    \/ \E confirmation \in Answers : Prompt(confirmation)
    \/ \E spawn \in Spawns : ExecCall(spawn)
    \/ \E k \in 1..Len(children), exit \in Exits : ChildExit(k, exit)
    \/ CommunicateReturns
    \/ Timeout
    \/ Resume
    \/ Finish

SpecRun == InitRun /\ [][NextRun]_vars

----------------------------------------------------------------------------
(* Claims about execute_code_block and the run loop (checked under SpecRun) *)

\* the call of execute_code_block for block k has returned
Returned(k) == k <= Len(results) \/ (k = i + 1 /\ epc = "returned")

\* what that call returned
ResultOf(k) == IF k <= Len(results) THEN results[k].result ELSE eret

\* C5: whenever execute_code_block has returned, no child process it created
\* is still running, on the timeout path and on every other return path.
C5_NoChildLeftRunning ==
    \A k \in 1..Len(children) :
        children[k].state = "running" => (k = i + 1 /\ epc = "communicate")

\* C6: for a block whose language is outside the allowed ones or whose body
\* matches a deny-list pattern, no process is created in the call, and the
\* call returns a Blocked result.
C6_DeniedNeverSpawned ==
    \A k \in 1..Len(code_blocks) :
        denied[k] =>
            /\ children[k] = NoChild
            /\ k \in 1..Len(started) => (Returned(k) /\ ResultOf(k).status = "Blocked")

\* a request whose first block was denied for its body and whose second block
\* was run in a child process
C6_Witness ==
    /\ hpc = "done"
    /\ Len(code_blocks) = 2
    /\ code_blocks[1].language = "bash"
    /\ denied[1]
    /\ results[1].result.status = "Blocked"
    /\ children[2].state = "exited"

\* the family of a language as the claim names the three families
FamilyOfClaim(language) ==
    CASE language \in {"bash", "sh"} -> "shell"
      [] language \in {"python", "py"} -> "Python"
      [] language \in {"javascript", "js", "node"} -> "Node.js"

C8_AlwaysAResult ==
    \A k \in 1..Len(code_blocks) :
        Returned(k) =>
            /\ ResultOf(k).status \in
                    {"Success", "Failure", "Blocked", "TimedOut", "ExecutionError"}
            /\ children[k].state = "spawn_failed" =>
                    /\ ResultOf(k).status = "ExecutionError"
                    /\ ResultOf(k).body = children[k].error

\* a call that has just returned after the process could not be created
C8_Witness ==
    /\ epc = "returned"
    /\ children[i + 1].state = "spawn_failed"
    /\ eret.status = "ExecutionError"
    /\ eret.body = "No such file or directory"

C15_NoExecutionWithoutYes ==
    /\ (started # <<>> \/ \E k \in 1..Len(children) : children[k] # NoChild)
            => answered = "yes"
    /\ hpc \in {"loop", "done"} => answered = "yes"
    /\ answered \in {"other", "dismissed"} =>
            /\ started = <<>>
            /\ results = <<>>
            /\ \A k \in 1..Len(children) : children[k] = NoChild
            /\ epc = "idle"
            /\ hpc = (IF answered = "other" THEN "cancelled" ELSE "error")

\* a request with two blocks that ended cancelled after an answer other than y
C15_Witness ==
    /\ answered = "other"
    /\ hpc = "cancelled"
    /\ Len(code_blocks) = 2
    /\ ~denied[1]
    /\ started = <<>>

----------------------------------------------------------------------------
(* handle_run_command: sending final_result                                *)

\* (mutant) the slice runs one character too far: final_result[i:i+4001]
SliceTooLong(text, from) ==
    SubSeq(text, from + 1, Min(from + MessageLimit + 1, Len(text)))

\* final_result[i:i+4000], i counted from 0
Slice(text, from) == SubSeq(text, from + 1, Min(from + MessageLimit, Len(text)))

\* [final_result[i:i+4000] for i in range(0, len(final_result), 4000)]
Chunks(text) ==
    [p \in 1..((Len(text) + MessageLimit - 1) \div MessageLimit) |->
        Slice(text, (p - 1) * MessageLimit)]

\* if len(final_result) > 4000: the chunks, else final_result itself
PartsOf(text) == IF Len(text) > MessageLimit THEN Chunks(text) ELSE <<text>>

\* the loop over parts, or the single call, begins
Split ==
    /\ spc = "split"
    /\ parts' = PartsOf(final_result)
    /\ j' = 1
    /\ spc' = "sending"
    /\ UNCHANGED <<final_result, fallback, delivered>>
    /\ UNCHANGED notSend

\* send_with_markdown: reply_text(text, parse_mode='Markdown') is accepted or raises
SendMarkdown(accepted) ==
    /\ spc = "sending"
    /\ j <= Len(parts)
    /\ ~fallback
    /\ IF accepted
         THEN /\ delivered' = Append(delivered, [text |-> parts[j], mode |-> "Markdown"])
              /\ j' = j + 1
              /\ UNCHANGED fallback
         ELSE /\ fallback' = TRUE
              /\ UNCHANGED <<delivered, j>>
    /\ UNCHANGED <<final_result, parts, spc>>
    /\ UNCHANGED notSend

\* send_with_markdown: the plain reply_text(text) after a failed Markdown
\* attempt; when it raises too, the handler's except clause ends the sending
SendPlain(accepted) ==
    /\ spc = "sending"
    /\ j <= Len(parts)
    /\ fallback
    /\ IF accepted
         THEN /\ delivered' = Append(delivered, [text |-> parts[j], mode |-> "plain"])
              /\ j' = j + 1
              /\ UNCHANGED spc
         ELSE /\ spc' = "error"
              /\ UNCHANGED <<delivered, j>>
    /\ fallback' = FALSE
    /\ UNCHANGED <<final_result, parts>>
    /\ UNCHANGED notSend

\* every part was sent
SendDone ==
    /\ spc = "sending"
    /\ j > Len(parts)
    /\ spc' = "done"
    /\ UNCHANGED <<final_result, parts, j, fallback, delivered>>
    /\ UNCHANGED notSend

\* the result texts of the model: lengths next to the multiples of the limit,
\* and characters that differ from one position to the next
TextLengths == {1} \cup {m * MessageLimit + d : m \in 1..MaxParts, d \in {-1, 0, 1}}
Strides == {1, 7}
TextOf(length, stride) == [k \in 1..length |-> (k * stride) % 251]

InitSend ==
    /\ SessionInit
    /\ RunIdle
    /\ ConcIdle
    /\ LoopIdle
    /\ FunctionsIdle
    /\ final_result \in {TextOf(length, stride) : length \in TextLengths, stride \in Strides}
    /\ parts = <<>>
    /\ spc = "split"
    /\ j = 0
    /\ fallback = FALSE
    /\ delivered = <<>>

NextSend ==
    \/ Split
    \/ \E accepted \in BOOLEAN : SendMarkdown(accepted)
    \/ \E accepted \in BOOLEAN : SendPlain(accepted)
    \/ SendDone

SpecChunk == InitSend /\ [][NextSend]_vars

----------------------------------------------------------------------------
(* Claim about the sending (checked under SpecChunk)                       *)

RECURSIVE Joined(_)
Joined(messages) ==
    IF messages = <<>> THEN <<>>
    ELSE Joined(SubSeq(messages, 1, Len(messages) - 1)) \o messages[Len(messages)].text

\* C10: a result text longer than 4000 is sent as consecutive chunks, none
\* empty, each at most 4000 long and all but the last exactly 4000, in order,
\* and the chunks joined in order are the text; a text of at most 4000 is
\* sent as one message equal to it.
C10_ChunksRejoin ==
    LET n == Len(final_result)
        sentSoFar == Joined(delivered)
    IN  /\ \A m \in 1..Len(delivered) :
                /\ Len(delivered[m].text) >= 1
                /\ Len(delivered[m].text) <= 4000
                /\ (n > 4000 /\ m * 4000 <= n) => Len(delivered[m].text) = 4000
        /\ sentSoFar = SubSeq(final_result, 1, Len(sentSoFar))
        /\ spc = "done" =>
                /\ sentSoFar = final_result
                /\ n > 4000 =>
                      \A m \in 1..(Len(delivered) - 1) : Len(delivered[m].text) = 4000
                /\ n <= 4000 =>
                      (Len(delivered) = 1 /\ delivered[1].text = final_result)

\* a text of 8001 characters sent as 4000 + 4000 + 1
C10_Witness ==
    /\ spc = "done"
    /\ Len(final_result) = 8001
    /\ Len(delivered) = 3
    /\ Len(delivered[3].text) = 1
    /\ delivered[2].mode = "plain"

----------------------------------------------------------------------------
(* Message handlers of one user in flight together                         *)
(*                                                                         *)
(* handle_message awaits the typing action and the file download, calls    *)
(* process_with_gemini or transcribe_audio_with_gemini, and awaits the     *)
(* reply. Between two awaits a handler runs on the event loop alone: the   *)
(* two memory functions are plain functions and completion() is a plain    *)
(* call, so the calls on the session lie between the awaits. The           *)
(* statements of add_to_conversation are separate steps here, so that a    *)
(* half-done call is a state of the model.                                 *)

Requests == 1..MaxInFlight

\* the user all the handlers in flight belong to
ConcUser == 1

\* where a handler is: the kind of its message, the turn the current
\* add_to_conversation call appends, and the statement it is at
At(op, role, content, stmt) == [op |-> op, role |-> role, content |-> content, stmt |-> stmt]

NoTurn == <<0, 0>>

Idle == At("none", "", NoTurn, "idle")

\* (mutant) a handler may be run at any moment, as a thread may
CanStepAlways(r) == TRUE

\* a handler runs when the event loop is free or is running it
CanStep(r) == running \in {0, r}

\* handler q is inside add_to_conversation: its first statement is done, its last is not
MidCall(q) == rpc[q].stmt \in {"append", "cut", "assign", "touch"}

\* handler r runs: note whether another handler is inside a call
Observe(r) ==
    observedPartial' = (observedPartial \/ \E q \in Requests \ {r} : MidCall(q))

\* the calls of the reference execution, each applied as a whole
RefAfterGet(session, t) ==
    IF ~session.present \/ t - session.last_activity > 5
        THEN [present |-> TRUE, messages |-> <<>>, last_activity |-> t]
        ELSE [session EXCEPT !.last_activity = t]

RECURSIVE DropFront(_)
DropFront(messages) ==
    IF Len(messages) > 10 THEN DropFront(Tail(messages)) ELSE messages

RefAfterAdd(session, turn, t) ==
    [present |-> TRUE,
     messages |-> DropFront(Append(session.messages, turn)),
     last_activity |-> t]

\* handle_message is called and runs to its first await (send_chat_action);
\* of the handlers not in use the first one takes the message
Arrive(r, kind) ==
    /\ CanStep(r)
    /\ rpc[r] = Idle
    /\ \A q \in Requests : q < r => rpc[q] # Idle
    /\ rpc' = [rpc EXCEPT ![r] = At(kind, "", NoTurn, "typing")]
    /\ running' = 0
    /\ Observe(r)
    /\ UNCHANGED <<tmp, failures, ref>>
    /\ UNCHANGED sessionVars
    /\ UNCHANGED notConc

\* process_with_gemini: conversation_history = self.get_or_reset_conversation(user_id)
Get(r) ==
    /\ CanStep(r)
    /\ rpc[r] = At("text", "", NoTurn, "typing")
    /\ conversations' = Store(ConcUser, SessionAfterGet(ConcUser, now))
    /\ ref' = RefAfterGet(ref, now)
    /\ rpc' = [rpc EXCEPT ![r] = At("text", "user", NoTurn, "create")]
    /\ running' = r
    /\ Observe(r)
    /\ UNCHANGED <<tmp, failures, now, sent, lastCall, appended, staleBefore>>
    /\ UNCHANGED notConc

\* transcribe_audio_with_gemini: completion(...) returns or raises; the two
\* turns are appended after it, with no get_or_reset_conversation before
Transcribe(r, ok) ==
    /\ CanStep(r)
    /\ rpc[r] = At("voice", "", NoTurn, "typing")
    /\ rpc' = [rpc EXCEPT ![r] =
            IF ok THEN At("voice", "user", NoTurn, "create")
                  ELSE At("reply", "", NoTurn, "send")]
    /\ running' = r
    /\ Observe(r)
    /\ UNCHANGED <<tmp, failures, ref>>
    /\ UNCHANGED sessionVars
    /\ UNCHANGED notConc

\* add_to_conversation is entered: if user_id not in self.conversations: create
AddCreate(r) ==
    /\ CanStep(r)
    /\ rpc[r].stmt = "create"
    /\ TotalSent < MaxAppends
    /\ conversations' = IF ConcUser \in DOMAIN conversations
                            THEN conversations
                            ELSE Store(ConcUser, NewSession(now))
    /\ sent' = [sent EXCEPT ![ConcUser] = @ + 1]
    /\ rpc' = [rpc EXCEPT ![r] =
            At(@.op, @.role, ContentOf(ConcUser, sent[ConcUser] + 1), "append")]
    /\ running' = r
    /\ Observe(r)
    /\ UNCHANGED <<tmp, failures, ref, now, lastCall, appended, staleBefore>>
    /\ UNCHANGED notConc

\* self.conversations[user_id]["messages"].append({"role": role, "content": content})
AddAppend(r) ==
    /\ CanStep(r)
    /\ rpc[r].stmt = "append"
    /\ conversations' = [conversations EXCEPT ![ConcUser].messages =
            Append(@, [role |-> rpc[r].role, content |-> rpc[r].content])]
    /\ rpc' = [rpc EXCEPT ![r].stmt = "cut"]
    /\ running' = r
    /\ Observe(r)
    /\ UNCHANGED <<tmp, failures, ref, now, sent, lastCall, appended, staleBefore>>
    /\ UNCHANGED notConc

\* if len(messages) > 10: the right-hand side messages[-10:] is evaluated
AddCut(r) ==
    /\ CanStep(r)
    /\ rpc[r].stmt = "cut"
    /\ IF Len(conversations[ConcUser].messages) > MaxMessages
         THEN /\ tmp' = [tmp EXCEPT ![r] = KeepLast(conversations[ConcUser].messages)]
              /\ rpc' = [rpc EXCEPT ![r].stmt = "assign"]
         ELSE /\ rpc' = [rpc EXCEPT ![r].stmt = "touch"]
              /\ UNCHANGED tmp
    /\ running' = r
    /\ Observe(r)
    /\ UNCHANGED <<failures, ref>>
    /\ UNCHANGED sessionVars
    /\ UNCHANGED notConc

\* self.conversations[user_id]["messages"] = <the slice>
AddAssign(r) ==
    /\ CanStep(r)
    /\ rpc[r].stmt = "assign"
    /\ conversations' = [conversations EXCEPT ![ConcUser].messages = tmp[r]]
    /\ tmp' = [tmp EXCEPT ![r] = <<>>]
    /\ rpc' = [rpc EXCEPT ![r].stmt = "touch"]
    /\ running' = r
    /\ Observe(r)
    /\ UNCHANGED <<failures, ref, now, sent, lastCall, appended, staleBefore>>
    /\ UNCHANGED notConc

\* self.conversations[user_id]["last_activity"] = datetime.now(), and the
\* call returns: to completion() after the user turn of a text message, to
\* the second add_to_conversation after the user turn of a voice message,
\* to the reply after the assistant turn
AddTouch(r) ==
    /\ CanStep(r)
    /\ rpc[r].stmt = "touch"
    /\ conversations' = [conversations EXCEPT ![ConcUser].last_activity = now]
    /\ ref' = RefAfterAdd(ref, [role |-> rpc[r].role, content |-> rpc[r].content], now)
    /\ rpc' = [rpc EXCEPT ![r] =
            IF @.role = "assistant" THEN At("reply", "", NoTurn, "send")
            ELSE IF @.op = "text" THEN At("text", "", NoTurn, "complete")
            ELSE At("voice", "assistant", NoTurn, "create")]
    /\ running' = r
    /\ Observe(r)
    /\ UNCHANGED <<tmp, failures, now, sent, lastCall, appended, staleBefore>>
    /\ UNCHANGED notConc

\* process_with_gemini: response = completion(...) returns, or raises and the
\* except clause returns the error text
Complete(r, ok) ==
    /\ CanStep(r)
    /\ rpc[r] = At("text", "", NoTurn, "complete")
    /\ ok \/ failures < MaxFailures
    /\ rpc' = [rpc EXCEPT ![r] =
            IF ok THEN At("text", "assistant", NoTurn, "create")
                  ELSE At("reply", "", NoTurn, "send")]
    /\ failures' = IF ok THEN failures ELSE failures + 1
    /\ running' = r
    /\ Observe(r)
    /\ UNCHANGED <<tmp, ref>>
    /\ UNCHANGED sessionVars
    /\ UNCHANGED notConc

\* handle_message: await self.send_with_markdown(update, result)
Return(r) ==
    /\ CanStep(r)
    /\ rpc[r].stmt = "send"
    /\ rpc' = [rpc EXCEPT ![r].stmt = "sending"]
    /\ running' = 0
    /\ Observe(r)
    /\ UNCHANGED <<tmp, failures, ref>>
    /\ UNCHANGED sessionVars
    /\ UNCHANGED notConc

\* the reply was sent and handle_message returns
Finished(r) ==
    /\ CanStep(r)
    /\ rpc[r].stmt = "sending"
    /\ rpc' = [rpc EXCEPT ![r] = Idle]
    /\ running' = 0
    /\ Observe(r)
    /\ UNCHANGED <<tmp, failures, ref>>
    /\ UNCHANGED sessionVars
    /\ UNCHANGED notConc

\* Time passes while the handlers are suspended in an await or one of them
\* waits in completion(); the statements between take no time. It passes
\* three minutes at a time: one step is shorter than the timeout, two are longer.
WaitStep == 3

Wait ==
    /\ IF running = 0 THEN TRUE ELSE rpc[running].stmt = "complete"
    /\ now + WaitStep <= MaxTime
    /\ now' = now + WaitStep
    /\ UNCHANGED <<conversations, sent, lastCall, appended, staleBefore>>
    /\ UNCHANGED concVars
    /\ UNCHANGED notConc

InitConc ==
    /\ SessionInit
    /\ RunIdle
    /\ SendIdle
    /\ LoopIdle
    /\ FunctionsIdle
    /\ rpc = [r \in Requests |-> Idle]
    /\ running = 0
    /\ tmp = [r \in Requests |-> <<>>]
    /\ failures = 0
    /\ ref = [present |-> FALSE, messages |-> <<>>, last_activity |-> 0]
    /\ observedPartial = FALSE

NextConc ==
    \/ \E r \in Requests, kind \in {"text", "voice"} : Arrive(r, kind)
    \/ \E r \in Requests : Get(r)
    \/ \E r \in Requests, ok \in BOOLEAN : Transcribe(r, ok)
    \/ \E r \in Requests : AddCreate(r)
    \/ \E r \in Requests : AddAppend(r)
    \/ \E r \in Requests : AddCut(r)
    \/ \E r \in Requests : AddAssign(r)
    \/ \E r \in Requests : AddTouch(r)
    \/ \E r \in Requests, ok \in BOOLEAN : Complete(r, ok)
    \/ \E r \in Requests : Return(r)
    \/ \E r \in Requests : Finished(r)
    \/ Wait

SpecConc == InitConc /\ [][NextConc]_vars

----------------------------------------------------------------------------
(* Claim about handlers in flight together (checked under SpecConc)        *)

\* C11: with several requests of one user in flight, each call of
\* get_or_reset_conversation and of add_to_conversation takes effect as a
\* whole: no handler runs while another is inside a call (so none sees more
\* than 10 turns or a half-done cut), and between calls the stored session is
\* the one that the finished calls give when applied one at a time in the
\* order they were made, which holds at most 10 turns and drops turns from
\* the front only.
C11_CallsAtomic ==
    /\ ~observedPartial
    /\ (\A q \in DOMAIN rpc : ~MidCall(q)) =>
            /\ Len(Stored(ConcUser)) <= 10
            /\ ref.present <=> ConcUser \in DOMAIN conversations
            /\ ref.present =>
                    /\ conversations[ConcUser].messages = ref.messages
                    /\ conversations[ConcUser].last_activity = ref.last_activity

\* two handlers are in flight, one suspended in its reply and one between
\* its two appends, and the eleventh turn has pushed the first one out
C11_Witness ==
    /\ \E q \in DOMAIN rpc : rpc[q].stmt = "sending"
    /\ \E q \in DOMAIN rpc : rpc[q].stmt = "complete"
    /\ sent[ConcUser] = 11
    /\ Len(Stored(ConcUser)) = 10
    /\ Stored(ConcUser)[1].content = <<ConcUser, 2>>
    /\ ref.messages = Stored(ConcUser)

----------------------------------------------------------------------------
(* A run request and the update of another user                            *)
(*                                                                         *)
(* run() builds the application without concurrent_updates and registers   *)
(* the handlers without block=False: the application takes the next update *)
(* from its queue when the handler of the one before has returned. Apart   *)
(* from that, prompt() is a plain call that returns when the box is        *)
(* answered: while it waits, the thread of the event loop runs nothing.     *)

\* handle_run_command has returned
HandlerReturned == hpc \in {"no_blocks", "cancelled", "error", "done"}

\* the handler is suspended in await asyncio.wait_for(process.communicate(), 30)
AwaitingChild == hpc = "loop" /\ epc = "communicate"

\* the handler is inside prompt(), waiting for the answer
AwaitingAnswer == hpc = "prompt"

\* the event loop can run another task
EventLoopFree == HandlerReturned \/ AwaitingChild

\* the application fetches the next update
NextUpdateTaken == HandlerReturned

\* the update of the other user is taken from the queue and its handler starts
OtherPickUp ==
    /\ other = "pending"
    /\ EventLoopFree
    /\ NextUpdateTaken
    /\ other' = "handling"
    /\ UNCHANGED notLoop

\* the handler of the other user's update runs to its end
OtherComplete ==
    /\ other = "handling"
    /\ EventLoopFree
    /\ other' = "done"
    /\ UNCHANGED notLoop

InitLoop == RunStart /\ other = "pending"

NextLoop ==
    \/ NextRun
    \/ OtherPickUp
    \/ OtherComplete

SpecLoop == InitLoop /\ [][NextLoop]_vars

----------------------------------------------------------------------------
(* Claim about the update queue (checked under SpecLoop)                   *)

\* C12: while a run request waits for the confirmation answer or for the
\* child process of a block, a pending request of another user can be
\* picked up: its handler can start without the run request finishing.
C12_OthersNotBlocked ==
    (other = "pending" /\ (AwaitingAnswer \/ AwaitingChild)) => ENABLED OtherPickUp

----------------------------------------------------------------------------
(* The policy of execute_code_block as a function of the block             *)

\* bodies: harmless ones, one for each kind of pattern, upper-case ones, and
\* bodies that more than one pattern matches
PolicyBodies == {
    Echo,
    RmRf,
    <<"R", "M", " ", "-", "R", "F", " ", "/">>,
    <<"r", "m", "\t", " ", "-", "r", "f">>,
    <<"r", "m", "-", "r", "f">>,
    <<"p", "u", "t", "s", " ", "1">>,
    <<"p", "r", "i", "n", "t", "(", "1", ")">>,
    <<"s", "u", "d", "o", " ", "r", "m", " ", "-", "r", "f", " ", "/">>,
    <<"S", "u", "d", "o", " ", "l", "s">>,
    <<"r", "e", "b", "o", "o", "t", ";", "s", "h", "u", "t", "d", "o", "w", "n">>,
    <<"l", "s", " ", "&", " ", "\n">>,
    <<"l", "s", " ", "&", " ", "x">>,
    <<"c", "u", "r", "l", " ", "u", "|", "b", "a", "s", "h">>,
    <<"w", "g", "e", "t", " ", "u", " ", "|", " ", "B", "A", "S", "H">>,
    <<"i", "n", "f", "o", "r", "m", "a", "t", "i", "o", "n">>,
    <<>> }

PolicyInputs == [language : Languages \cup {"Python", ""}, code : PolicyBodies]

\* execute_code_block is called and its checks give their result
Decide ==
    /\ Len(decisions) < MaxCalls
    /\ decisions' = Append(decisions, PolicyResult(code_block))
    /\ UNCHANGED code_block
    /\ UNCHANGED notPolicy

InitPolicy ==
    /\ SessionInit
    /\ RunIdle
    /\ SendIdle
    /\ ConcIdle
    /\ LoopIdle
    /\ ExtractIdle
    /\ code_block \in PolicyInputs
    /\ decisions = <<>>

NextPolicy == Decide

SpecPolicy == InitPolicy /\ [][NextPolicy]_vars

----------------------------------------------------------------------------
(* Claim about the policy (checked under SpecPolicy)                       *)

\* the patterns of the deny-list that match a body, by their place in the list
Matching(code) == {p \in 1..12 : Search(dangerous_patterns[p], code)}

\* for the block with this language and this body, the result is this one
Judged(decision, language, code, status, tag, body) ==
    code_block = [language |-> language, code |-> code] =>
        (decision.status = status /\ decision.tag = tag /\ decision.body = body)

\* C13: the decision is a function of the block: allowed exactly when the
\* language is one of the seven allowed ones and no deny-list pattern matches
\* the body, upper or lower case; otherwise denied, for the language when it
\* is not allowed, whatever the body, and else for the first pattern in list
\* order that matches; a second call gives what the first gave. bash
\* "rm -rf /" is denied, ruby "puts 1" is denied for its language, python
\* "print(1)" is allowed.
C13_PolicyIsFunctionOfBlock ==
    \A k \in 1..Len(decisions) :
        LET decision == decisions[k]
            allowed == code_block.language \in
                            {"bash", "sh", "python", "py", "javascript", "js", "node"}
            matching == Matching(code_block.code)
        IN  /\ decision = decisions[1]
            /\ decision.status \in {"Allowed", "Blocked"}
            /\ decision.status = "Allowed" <=> (allowed /\ matching = {})
            /\ ~allowed =>
                    /\ decision.tag = "language"
                    /\ decision.body = code_block.language
            /\ (allowed /\ matching # {}) =>
                    /\ decision.tag = "pattern"
                    /\ \E p \in matching :
                            /\ \A q \in matching : p <= q
                            /\ decision.body = PatternText[p]
            /\ Judged(decision, "bash", <<"r", "m", " ", "-", "r", "f", " ", "/">>,
                      "Blocked", "pattern", "rm\\s+-rf")
            /\ Judged(decision, "sh", <<"R", "M", " ", "-", "R", "F", " ", "/">>,
                      "Blocked", "pattern", "rm\\s+-rf")
            /\ Judged(decision, "ruby", <<"p", "u", "t", "s", " ", "1">>,
                      "Blocked", "language", "ruby")
            /\ Judged(decision, "python", <<"p", "r", "i", "n", "t", "(", "1", ")">>,
                      "Allowed", "", "")
            /\ Judged(decision, "bash",
                      <<"s", "u", "d", "o", " ", "r", "m", " ", "-", "r", "f", " ", "/">>,
                      "Blocked", "pattern", "rm\\s+-rf")

\* an unsupported language with a body that a pattern matches has been judged
\* twice and denied for its language
C13_Witness ==
    /\ code_block = [language |-> "ruby", code |-> RmRf]
    /\ Len(decisions) = 2
    /\ decisions[2].status = "Blocked"
    /\ decisions[2].tag = "language"
    /\ Matching(code_block.code) = {1}

----------------------------------------------------------------------------
(* extract_code_blocks                                                     *)
(*                                                                         *)
(* re.findall with re.DOTALL of the pattern: a fence, then optionally the   *)
(* group of a word run and a space run, then a lazy run of any characters, *)
(* then a fence. At each start position, from the left, the pattern is     *)
(* tried as the regex engine tries it: with the group, the longest word    *)
(* run first, then the longest space run, then the shortest run that a     *)
(* fence follows; then without the group.                                  *)

\* the backtick character
Backtick == "backtick"

Digits == {"0", "1", "2", "3", "4", "5", "6", "7", "8", "9"}

\* \w
IsWord(c) ==
    \/ c \in DOMAIN LowerOf
    \/ c \in {LowerCase[k] : k \in 1..26}
    \/ c \in Digits
    \/ c = "_"

\* the three backticks are at position p
FenceAt(text, p) ==
    /\ p >= 1
    /\ p + 2 <= Len(text)
    /\ text[p] = Backtick /\ text[p + 1] = Backtick /\ text[p + 2] = Backtick

\* how many characters of the kind follow one another from position p on
RECURSIVE RunOf(_, _, _)
RunOf(text, p, kind) ==
    IF p > Len(text) THEN 0
    ELSE IF (kind = "word" /\ IsWord(text[p])) \/ (kind = "space" /\ IsSpace(text[p]))
        THEN 1 + RunOf(text, p + 1, kind)
    ELSE 0

\* the first position from p on where a fence is, 0 when there is none
RECURSIVE FirstFence(_, _)
FirstFence(text, p) ==
    IF p + 2 > Len(text) THEN 0
    ELSE IF FenceAt(text, p) THEN p
    ELSE FirstFence(text, p + 1)

\* the ways the group can match at position a so that the rest of the
\* pattern matches after it: the lengths of the word run and of the space run
GroupWays(text, a) ==
    {way \in [word : 1..RunOf(text, a, "word"), space : 0..Len(text)] :
        /\ way.space <= RunOf(text, a + way.word, "space")
        /\ FirstFence(text, a + way.word + way.space) # 0}

\* (mutant) the word run takes as little as it can
ShortestWordWay(ways) ==
    CHOOSE way \in ways : \A w2 \in ways :
        \/ way.word < w2.word
        \/ (way.word = w2.word /\ way.space >= w2.space)

\* the way the engine finds first: both runs are greedy
FirstWay(ways) ==
    CHOOSE way \in ways : \A w2 \in ways :
        \/ way.word > w2.word
        \/ (way.word = w2.word /\ way.space >= w2.space)

NoMatch == [found |-> FALSE, language |-> <<>>, code |-> <<>>, next |-> 0]

\* the match of the pattern that starts at position s
MatchAt(text, s) ==
    IF ~FenceAt(text, s) THEN NoMatch
    ELSE LET a == s + 3
             ways == GroupWays(text, a)
         IN  IF ways # {}
                THEN LET way == FirstWay(ways)
                         from == a + way.word + way.space
                         close == FirstFence(text, from)
                     IN  [found |-> TRUE,
                          language |-> SubSeq(text, a, a + way.word - 1),
                          code |-> SubSeq(text, from, close - 1),
                          next |-> close + 3]
             ELSE IF FirstFence(text, a) # 0
                THEN [found |-> TRUE,
                      language |-> <<>>,
                      code |-> SubSeq(text, a, FirstFence(text, a) - 1),
                      next |-> FirstFence(text, a) + 3]
             ELSE NoMatch

\* re.findall: the matches from position s on, from left to right, each
\* search starting where the match before ended
RECURSIVE FindAll(_, _)
FindAll(text, s) ==
    IF s > Len(text) THEN <<>>
    ELSE LET m == MatchAt(text, s)
         IN  IF m.found
                THEN <<[language |-> m.language, code |-> m.code]>> \o FindAll(text, m.next)
                ELSE FindAll(text, s + 1)

\* code.strip()
RECURSIVE StripLeft(_)
StripLeft(text) ==
    IF text # <<>> /\ IsSpace(text[1]) THEN StripLeft(Tail(text)) ELSE text

RECURSIVE StripRight(_)
StripRight(text) ==
    IF text # <<>> /\ IsSpace(text[Len(text)])
        THEN StripRight(SubSeq(text, 1, Len(text) - 1))
        ELSE text

Strip(text) == StripRight(StripLeft(text))

DefaultLanguage == <<"b", "a", "s", "h">>

\* the loop over the matches: blocks with an empty body are left out
RECURSIVE BlocksOf(_)
BlocksOf(matches) ==
    IF matches = <<>> THEN <<>>
    ELSE LET language == matches[1].language
             code == Strip(matches[1].code)
         IN  (IF code # <<>>
                THEN <<[language |-> IF language # <<>> THEN Lower(language)
                                                       ELSE DefaultLanguage,
                        code |-> code]>>
                ELSE <<>>)
             \o BlocksOf(Tail(matches))

extract_code_blocks(text) == BlocksOf(FindAll(text, 1))

\* the call
Extract ==
    /\ xpc = "called"
    /\ extracted' = extract_code_blocks(message_text)
    /\ xpc' = "returned"
    /\ UNCHANGED message_text
    /\ UNCHANGED notExtract

\* the pieces the texts are made of: a fence, a lone backtick, a word
\* character in upper case, a line end, a character that is neither
Pieces == { <<Backtick, Backtick, Backtick>>, <<Backtick>>, <<"P">>, <<"\n">>, <<"(">> }

RECURSIVE Texts(_)
Texts(n) ==
    IF n = 0 THEN {<<>>}
    ELSE LET shorter == Texts(n - 1)
         IN  shorter \cup {t \o piece : t \in shorter, piece \in Pieces}

Fence == <<Backtick, Backtick, Backtick>>

\* texts as users write them
WrittenTexts == {
    Fence \o <<"p", "y", "t", "h", "o", "n", "\n", "p", "r", "i", "n", "t", "(", "1", ")", "\n">> \o Fence,
    <<"r", "u", "n", " ">> \o Fence \o <<"B", "a", "s", "h", " ", "l", "s", " ", "-", "l">> \o Fence
        \o <<" ", "a", "n", "d", " ">> \o Fence \o <<"\n", "p", "w", "d", "\n">> \o Fence,
    Fence \o <<"l", "s">> \o Fence,
    <<"n", "o", " ", "c", "o", "d", "e">> }

InitExtract ==
    /\ SessionInit
    /\ RunIdle
    /\ SendIdle
    /\ ConcIdle
    /\ LoopIdle
    /\ PolicyIdle
    /\ message_text \in Texts(MaxTokens) \cup WrittenTexts
    /\ xpc = "called"
    /\ extracted = <<>>

NextExtract == Extract

SpecExtract == InitExtract /\ [][NextExtract]_vars

----------------------------------------------------------------------------
(* Claim about the extraction (checked under SpecExtract)                  *)

\* The blocks as the description gives them, from position p on: the next
\* opening marker, the nearest closing marker after it, the language the
\* longest run of word characters right after the opening marker, the body
\* what is left between the two, trimmed; then on after the closing marker.
RECURSIVE Described(_, _)
Described(text, p) ==
    LET open == FirstFence(text, p)
        close == IF open = 0 THEN 0 ELSE FirstFence(text, open + 3)
    IN  IF open = 0 \/ close = 0 THEN <<>>
        ELSE LET tagLen == CHOOSE n \in 0..Len(text) :
                            /\ \A k \in 1..n : IsWord(text[open + 2 + k])
                            /\ ~IsWord(text[open + 3 + n])
                 body == Strip(SubSeq(text, open + 3 + tagLen, close - 1))
                 tag == SubSeq(text, open + 3, open + 2 + tagLen)
             IN  (IF body = <<>> THEN <<>>
                  ELSE <<[language |-> IF tagLen = 0 THEN <<"b", "a", "s", "h">>
                                       ELSE [k \in 1..tagLen |->
                                                IF tag[k] = "P" THEN "p"
                                                ELSE IF tag[k] = "B" THEN "b" ELSE tag[k]],
                          code |-> body]>>)
                 \o Described(text, close + 3)

\* C14: extract_code_blocks returns the blocks of the fenced segments, each
\* opening marker paired with the nearest closing marker after it, in order
\* of appearance; every block has a non-empty trimmed body and a lower-case
\* language, the longest run of word characters right after the opening
\* marker, or bash when there is none; a segment whose body is empty after
\* trimming gives no block, a text without a segment gives the empty list,
\* and the python segment with print(1) on its own line gives exactly the
\* block (python, print(1)).
C14_ExtractsFencedSegments ==
    xpc = "returned" =>
        /\ extracted = Described(message_text, 1)
        /\ \A k \in 1..Len(extracted) :
                /\ extracted[k].code # <<>>
                /\ ~IsSpace(extracted[k].code[1])
                /\ ~IsSpace(extracted[k].code[Len(extracted[k].code)])
                /\ extracted[k].language # <<>>
                /\ \A m \in 1..Len(extracted[k].language) :
                        extracted[k].language[m] \notin {UpperCase[n] : n \in 1..26}
        /\ FirstFence(message_text, 1) = 0 => extracted = <<>>
        /\ message_text = <<Backtick, Backtick, Backtick, "p", "y", "t", "h", "o", "n", "\n",
                            "p", "r", "i", "n", "t", "(", "1", ")", "\n", Backtick, Backtick, Backtick>> =>
                extracted = <<[language |-> <<"p", "y", "t", "h", "o", "n">>,
                               code |-> <<"p", "r", "i", "n", "t", "(", "1", ")">>]>>

\* a text with two segments, the first tagged in upper case on one line, the
\* second untagged: two blocks in that order, bash both
C14_Witness ==
    /\ xpc = "returned"
    /\ Len(message_text) = 36
    /\ extracted = <<[language |-> <<"b", "a", "s", "h">>,
                      code |-> <<"l", "s", " ", "-", "l">>],
                     [language |-> <<"b", "a", "s", "h">>,
                      code |-> <<"p", "w", "d">>]>>

====
